---- MODULE Spec2Model ----
(***************************************************************************)
(* Model of src/src/clustering_model.py.py: the k-medians engine, the      *)
(* elbow selector find_optimal_k, the cluster ranking (section 6.C) and    *)
(* the reward rule calculate_cb_amount (section 6.D).                       *)
(*                                                                         *)
(* Numbers.  Feature components are fixed-point integers in units of       *)
(* 1/2000, and every input component is an even integer, so the median of  *)
(* an even number of values (the mean of the two middle ones) is again an  *)
(* integer of the same unit.  Cluster means and reward intermediates are   *)
(* exact rationals <<numerator, denominator>>.                             *)
(***************************************************************************)
EXTENDS Integers, Sequences, FiniteSets, TLC

VARIABLES
    aggregated,     \* user_averages as aggregated, lines 40-45, before the filter
    user_averages,  \* per-user rows [theo, days] (AVG_WEEKLY_THEO_WIN, AVG_WEEKLY_DAYS_PLAYED)
    X,              \* feature matrix handed to kmedians: sequence of <<LOG_THEO, days>>
    perm,           \* np.random.permutation(len(X)) under np.random.seed(100)
    n_clusters,     \* kmedians argument
    max_iter,       \* kmedians argument
    labels,         \* kmedians local / line 132 global
    medoids,        \* kmedians local
    total_cost,     \* kmedians local
    iter,           \* number of loop iterations of line 82 begun so far
    kpc,            \* position inside kmedians: "call", "loop", "done"
    ret,            \* the triple kmedians returned
    draws,          \* number of np.random.choice calls made
    err,            \* exception that reached the caller, "none" if none
    max_k,          \* find_optimal_k argument
    costs,          \* find_optimal_k local
    runs,           \* kmedians calls made by find_optimal_k
    best_k,         \* value returned by find_optimal_k (optimal_k)
    picks,          \* results of successive elbow selections on the same curve
    pc,             \* position in the script / the operation under study
    CLUSTER,        \* user_averages["CLUSTER"]
    cluster_means,  \* line 144
    cluster_cb_map  \* line 150

vars == <<aggregated, user_averages, X, perm, n_clusters, max_iter, labels, medoids, total_cost,
          iter, kpc, ret, draws, err, max_k, costs, runs, best_k, picks, pc,
          CLUSTER, cluster_means, cluster_cb_map>>

kmVars == <<X, perm, n_clusters, max_iter, labels, medoids, total_cost, iter, kpc,
            ret, draws>>

----------------------------------------------------------------------------
(* Bounds of the model *)

MaxN == 3          \* points in a direct kmedians call
MaxClusters == 3   \* n_clusters in a direct kmedians call
MaxIter == 2       \* max_iter in a direct kmedians call
MaxUsers == 3      \* users in a free pipeline run
MaxK == 3          \* max_k in a free pipeline run
MaxCurveLen == 4   \* length of a free cost curve
MaxCost == 6       \* cost values of a free cost curve
MaxSum == 130      \* numerator of a free cluster mean
MaxCount == 2      \* denominator of a free cluster mean

(* Program constants *)

DefaultMaxIter == 100      \* kmedians(max_iter=100)
DefaultMaxK == 15          \* find_optimal_k(X, max_k=15)
TheoFilter == 10           \* AVG_WEEKLY_THEO_WIN >= 10
RTolInv == 100000          \* 1 / rtol of np.allclose (rtol = 1e-05)

----------------------------------------------------------------------------
(* Arithmetic helpers *)

Abs(x) == IF x < 0 THEN 0 - x ELSE x

RECURSIVE Sum(_)
Sum(s) == IF s = <<>> THEN 0 ELSE Head(s) + Sum(Tail(s))

Range(s) == {s[i] : i \in DOMAIN s}

IndexPermutations(n) == {p \in [1..n -> 0..(n - 1)] : \A i, j \in 1..n : p[i] = p[j] => i = j}

(* Exact rationals <<num, den>>, den > 0 *)
RatMul(a, b) == <<a[1] * b[1], a[2] * b[2]>>
RatDiv(a, b) == <<a[1] * b[2], a[2] * b[1]>>
RatLE(a, b) == a[1] * b[2] <= b[1] * a[2]
RatLT(a, b) == a[1] * b[2] < b[1] * a[2]
RatEQ(a, b) == a[1] * b[2] = b[1] * a[2]

(* math.ceil of a non-negative rational *)
CeilHalfUp(q) == (2 * q[1] + q[2]) \div (2 * q[2])
Ceil(q) == (q[1] + q[2] - 1) \div q[2]

----------------------------------------------------------------------------
(* kmedians, lines 72-96 *)

L1(p, q) == Abs(p[1] - q[1]) + Abs(p[2] - q[2])

(* line 83: distances[i][j] = sum_d |X[i][d] - medoids[j][d]| *)
Distances(XX, meds) ==
    [i \in 1..Len(XX) |-> [j \in 1..Len(meds) |-> L1(XX[i], meds[j])]]

(* np.argmin over one row: the first index (0-based) of the minimum *)
ArgMinOneBased(row) ==
    CHOOSE j \in 1..Len(row) :
        /\ \A l \in 1..Len(row) : row[j] <= row[l]
        /\ \A l \in 1..(j - 1) : row[l] > row[j]
ArgMin(row) ==
    (CHOOSE j \in 1..Len(row) :
        /\ \A l \in 1..Len(row) : row[j] <= row[l]
        /\ \A l \in 1..(j - 1) : row[l] > row[j]) - 1

(* np.min over one row *)
RowMin(row) == CHOOSE v \in Range(row) : \A l \in 1..Len(row) : v <= row[l]

(* X[labels == k]: the rows of X labelled k, in order *)
RECURSIVE Members(_, _, _)
Members(XX, lab, k) ==
    IF XX = <<>> THEN <<>>
    ELSE IF Head(lab) = k THEN <<Head(XX)>> \o Members(Tail(XX), Tail(lab), k)
         ELSE Members(Tail(XX), Tail(lab), k)

(* np.median of a non-empty sequence of numbers *)
Median(vals) ==
    LET s == SortSeq(vals, LAMBDA a, b : a < b)
        n == Len(s)
    IN  IF n % 2 = 1 THEN s[(n + 1) \div 2]
        ELSE (s[n \div 2] + s[n \div 2 + 1]) \div 2

(* np.median(pts, axis=0) *)
MedianPoint(pts) ==
    <<Median([i \in 1..Len(pts) |-> pts[i][1]]),
      Median([i \in 1..Len(pts) |-> pts[i][2]])>>

(* lines 88-91: the medoid of every cluster, an empty cluster keeps its own *)
NewMedoidsDropEmpty(XX, lab, meds) ==
    LET keep == SelectSeq([k \in 1..Len(meds) |-> k - 1],
                          LAMBDA k : Members(XX, lab, k) # <<>>)
    IN  [i \in 1..Len(keep) |-> MedianPoint(Members(XX, lab, keep[i]))]
NewMedoids(XX, lab, meds) ==
    [k \in 1..Len(meds) |->
        IF Members(XX, lab, k - 1) # <<>>
        THEN MedianPoint(Members(XX, lab, k - 1))
        ELSE meds[k]]

(* np.allclose(a, b): |a - b| <= atol + rtol * |b| elementwise, atol = 1e-08,  *)
(* rtol = 1e-05.  In the fixed-point unit u = 1/2000 this reads                *)
(* |A - B| * 10^5 <= |B| + 10^5 * atol / u, and 10^5 * atol / u = 0.002 is     *)
(* below 1 while both sides are integers, so the atol term never decides.      *)
IsClose(a, b) == Abs(a - b) * RTolInv <= Abs(b)
AllClose(a, b) ==
    /\ Len(a) = Len(b)
    /\ \A k \in 1..Len(a) : IsClose(a[k][1], b[k][1]) /\ IsClose(a[k][2], b[k][2])

(* line 74: the guard of the degenerate return *)
DegenerateOffByOne(XX, n) == Len(XX) + 1 < n
Degenerate(XX, n) == Len(XX) < n

(* line 75: np.zeros(len(X)), np.zeros((0, X.shape[1])), 0 *)
DegenerateReturn(XX) ==
    [labels |-> [i \in 1..Len(XX) |-> 0], medoids |-> <<>>, cost |-> 0]

(* lines 77-78: medoid_ids = permutation[:n], medoids = X[medoid_ids] *)
InitialMedoids(XX, n, p) == [j \in 1..n |-> XX[p[j] + 1]]

(* lines 83-86 *)
Assign(XX, meds) == [i \in 1..Len(XX) |-> ArgMin(Distances(XX, meds)[i])]
Cost(XX, meds) == Sum([i \in 1..Len(XX) |-> RowMin(Distances(XX, meds)[i])])

(* One pass of the loop body, lines 83-94, from loop state s =                *)
(* [labels, medoids, total_cost, iter, done]; done is set by the break of     *)
(* line 93 or by range(max_iter) running out.                                 *)
Iterate(XX, mi, s) ==
    LET lab == Assign(XX, s.medoids)
        new == NewMedoids(XX, lab, s.medoids)
        close == AllClose(new, s.medoids)
    IN  [labels |-> lab,
         medoids |-> IF close THEN s.medoids ELSE new,
         total_cost |-> Cost(XX, s.medoids),
         iter |-> s.iter + 1,
         done |-> close \/ s.iter + 1 >= mi]

(* lines 77-80: the loop state before the first pass *)
LoopEntry(XX, n, mi, p) ==
    [labels |-> [i \in 1..Len(XX) |-> 0],
     medoids |-> InitialMedoids(XX, n, p),
     total_cost |-> 0,
     iter |-> 0,
     done |-> mi <= 0]

RECURSIVE RunLoop(_, _, _)
RunLoop(XX, mi, s) == IF s.done THEN s ELSE RunLoop(XX, mi, Iterate(XX, mi, s))

(* The whole call kmedians(X, n, max_iter) as its returned triple *)
KMediansRun(XX, n, mi, p) ==
    IF Degenerate(XX, n) THEN DegenerateReturn(XX)
    ELSE LET s == RunLoop(XX, mi, LoopEntry(XX, n, mi, p))
         IN  [labels |-> s.labels, medoids |-> s.medoids, cost |-> s.total_cost]

NoReturn == [labels |-> <<>>, medoids |-> <<>>, cost |-> 0 - 1]

----------------------------------------------------------------------------
(* A direct call kmedians(X, n_clusters, max_iter), one loop pass per step; *)
(* max_iter is a positive integer, the input order of the rows is free and  *)
(* perm is any permutation the seeded generator could yield                 *)

(* Feature vectors a direct call draws its rows from (duplicates allowed) *)
FeaturePoints == {<<0, 0>>, <<2, 0>>, <<10, 0>>, <<0, 4>>, <<6, 4>>}

SeqsUpTo(S, n) == UNION {[1..m -> S] : m \in 0..n}

Idle ==
    /\ aggregated = <<>>
    /\ user_averages = <<>>
    /\ err = "none"
    /\ max_k = 0
    /\ costs = <<>>
    /\ runs = 0
    /\ best_k = 0
    /\ picks = <<>>
    /\ CLUSTER = <<>>
    /\ cluster_means = <<>>
    /\ cluster_cb_map = <<>>

NoCall ==
    /\ n_clusters = 0
    /\ max_iter = 0
    /\ labels = <<>>
    /\ medoids = <<>>
    /\ total_cost = 0
    /\ iter = 0
    /\ kpc = "idle"
    /\ ret = NoReturn
    /\ draws = 0

InitKM ==
    /\ Idle
    /\ pc = "kmedians"
    /\ X \in SeqsUpTo(FeaturePoints, MaxN)
    /\ perm \in IndexPermutations(Len(X))
    /\ n_clusters \in 1..MaxClusters
    /\ max_iter \in 1..MaxIter
    /\ labels = <<>>
    /\ medoids = <<>>
    /\ total_cost = 0
    /\ iter = 0
    /\ kpc = "call"
    /\ ret = NoReturn
    /\ draws = 0

(* lines 73-80: seed, the degenerate return, the initial sample.              *)
(* np.random.choice(len(X), n, replace=False) raises ValueError when          *)
(* n > len(X).                                                                *)
KMedCall ==
    /\ pc = "kmedians"
    /\ kpc = "call"
    /\ IF Degenerate(X, n_clusters)
       THEN /\ ret' = DegenerateReturn(X)
            /\ kpc' = "done"
            /\ UNCHANGED <<labels, medoids, total_cost, iter, draws, err>>
       ELSE /\ draws' = draws + 1
            /\ IF n_clusters > Len(X)
               THEN /\ err' = "ValueError"
                    /\ kpc' = "raised"
                    /\ UNCHANGED <<labels, medoids, total_cost, iter, ret>>
               ELSE LET s == LoopEntry(X, n_clusters, max_iter, perm)
                    IN  /\ labels' = s.labels
                        /\ medoids' = s.medoids
                        /\ total_cost' = s.total_cost
                        /\ iter' = s.iter
                        /\ kpc' = "loop"
                        /\ UNCHANGED <<ret, err>>
    /\ UNCHANGED <<aggregated, user_averages, X, perm, n_clusters, max_iter, max_k, costs, runs,
                   best_k, picks, pc, CLUSTER, cluster_means, cluster_cb_map>>

(* lines 82-96: one pass of the loop; the pass that breaks or exhausts       *)
(* range(max_iter) also returns (line 96).                                    *)
KMedIter ==
    /\ pc = "kmedians"
    /\ kpc = "loop"
    /\ iter < max_iter
    /\ LET s == Iterate(X, max_iter,
                        [labels |-> labels, medoids |-> medoids,
                         total_cost |-> total_cost, iter |-> iter, done |-> FALSE])
       IN  /\ labels' = s.labels
           /\ medoids' = s.medoids
           /\ total_cost' = s.total_cost
           /\ iter' = s.iter
           /\ IF s.done
              THEN /\ kpc' = "done"
                   /\ ret' = [labels |-> s.labels, medoids |-> s.medoids,
                              cost |-> s.total_cost]
              ELSE UNCHANGED <<kpc, ret>>
    /\ UNCHANGED <<aggregated, user_averages, X, perm, n_clusters, max_iter, draws, err, max_k,
                   costs, runs, best_k, picks, pc, CLUSTER, cluster_means,
                   cluster_cb_map>>

NextKM == KMedCall \/ KMedIter

SpecKM == InitKM /\ [][NextKM]_vars

----------------------------------------------------------------------------
(* find_optimal_k, lines 98-121 *)

(* line 101: list(range(1, max_k + 1)) *)
KRange(mk) == [i \in 1..(IF mk < 1 THEN 0 ELSE mk) |-> i]

(* line 113, with p1 = (k_range[0], costs[0]), p2 = (k_range[-1], costs[-1]) *)
Numerator(p0, p1, p2) ==
    Abs((p2[2] - p1[2]) * p0[1] - (p2[1] - p1[1]) * p0[2]
        + p2[1] * p1[2] - p2[2] * p1[1])

(* line 114 before the square root *)
DenominatorSq(p1, p2) ==
    (p2[2] - p1[2]) * (p2[2] - p1[2]) + (p2[1] - p1[1]) * (p2[1] - p1[1])

(* line 116: distance > max_distance, where both are a numerator over the    *)
(* same denominator sqrt(den2) (p1 and p2 do not change in the loop) and      *)
(* max_distance starts at 0.  den2 = 0 makes distance 0/0 = nan, and every    *)
(* comparison with nan is False.                                              *)
ExceedsOrEquals(num, max_num, den2) == den2 > 0 /\ num >= max_num
ExceedsReversed(num, max_num, den2) == den2 > 0 /\ num < max_num
Exceeds(num, max_num, den2) == den2 > 0 /\ num > max_num

(* lines 108-118: the loop over zip(k_range, costs) from position i on *)
RECURSIVE ElbowLoop(_, _, _, _, _)
ElbowLoop(k_range, cs, i, max_num, best) ==
    IF i > Len(k_range) THEN best
    ELSE LET p1 == <<k_range[1], cs[1]>>
             p2 == <<k_range[Len(k_range)], cs[Len(cs)]>>
             num == Numerator(<<k_range[i], cs[i]>>, p1, p2)
         IN  IF Exceeds(num, max_num, DenominatorSq(p1, p2))
             THEN ElbowLoop(k_range, cs, i + 1, num, k_range[i])
             ELSE ElbowLoop(k_range, cs, i + 1, max_num, best)

(* lines 106-121 for a non-empty k_range *)
ElbowSelect(k_range, cs) == ElbowLoop(k_range, cs, 1, 0, k_range[1])

----------------------------------------------------------------------------
(* The script, sections 3-6 *)

(* line 64: np.log10(theo + 1), in units of 1/2000 (floor of 1000 * log10,   *)
(* doubled), for the theo values the model uses                               *)
LOG_THEO(theo) ==
    CASE theo = 5 -> 1556
      [] theo = 50 -> 3414
      [] theo = 55 -> 3496
      [] theo = 500 -> 5398
      [] theo = 510 -> 5416

(* lines 63-66: X = [LOG_THEO, AVG_WEEKLY_DAYS_PLAYED], days in units of 1/2000 *)
Features(rows) ==
    [i \in 1..Len(rows) |-> <<LOG_THEO(rows[i].theo), rows[i].days * 2000>>]

(* line 48: keep the users with AVG_WEEKLY_THEO_WIN >= 10 *)
KeepAll(rows) == rows
FilterTheo(rows) == SelectSeq(rows, LAMBDA r : r.theo >= TheoFilter)

(* The sorted sequence of the elements of a finite set of integers *)
RECURSIVE SortedSeqOf(_)
SortedSeqOf(S) ==
    IF S = {} THEN <<>>
    ELSE LET m == CHOOSE x \in S : \A y \in S : x <= y
         IN  <<m>> \o SortedSeqOf(S \ {m})

(* groupby(col)["AVG_WEEKLY_THEO_WIN"].mean(): the keys present, ascending,  *)
(* each with the mean <<sum, count>> of its members                           *)
GroupKeys(col) == SortedSeqOf(Range(col))
GroupMean(rows, col, key) ==
    <<Sum([i \in 1..Len(rows) |-> IF col[i] = key THEN rows[i].theo ELSE 0]),
      Cardinality({i \in 1..Len(rows) : col[i] = key})>>

(* line 137: sort_values(by=mean, ascending=True).  The default sort kind is *)
(* quicksort, which is not stable: every order of the rows with               *)
(* non-decreasing means is a possible result.                                 *)
SortOrdersDescending(means) ==
    {o \in IndexPermutations(Len(means)) :
        \A i, j \in 1..Len(means) :
            i < j => RatLE(means[o[j] + 1], means[o[i] + 1])}
SortOrders(means) ==
    {o \in IndexPermutations(Len(means)) :
        \A i, j \in 1..Len(means) :
            i < j => RatLE(means[o[i] + 1], means[o[j] + 1])}

(* lines 138-139: new_CLUSTER_id = index + 1, as a map from the old key *)
ClusterMapping(keys, o) ==
    [key \in Range(keys) |->
        CHOOSE pos \in 1..Len(keys) : keys[o[pos] + 1] = key]

(* lines 146-148 *)
calculate_cb_amount(mean_val) ==
    LET val_10_percent == RatMul(mean_val, <<10, 100>>)
    IN  Ceil(RatDiv(val_10_percent, <<10, 1>>)) * 10

(* Per-user rows of a free run, and the five users of the end-to-end scenario *)
UserRows ==
    {[theo |-> 5, days |-> 3], [theo |-> 50, days |-> 1],
     [theo |-> 50, days |-> 3], [theo |-> 500, days |-> 3]}

ScenarioUsers ==
    <<[theo |-> 5, days |-> 3], [theo |-> 50, days |-> 3], [theo |-> 55, days |-> 3],
      [theo |-> 500, days |-> 3], [theo |-> 510, days |-> 3]>>

Init ==
    /\ pc = "filter"
    /\ aggregated \in SeqsUpTo(UserRows, MaxUsers) \cup {ScenarioUsers}
    /\ user_averages = aggregated
    /\ max_k \in ((0 - 1)..MaxK) \cup {DefaultMaxK}
    /\ X = <<>>
    /\ perm = <<>>
    /\ NoCall
    /\ err = "none"
    /\ costs = <<>>
    /\ runs = 0
    /\ best_k = 0
    /\ picks = <<>>
    /\ CLUSTER = <<>>
    /\ cluster_means = <<>>
    /\ cluster_cb_map = <<>>

(* lines 47-48 *)
FilterUsers ==
    /\ pc = "filter"
    /\ user_averages' = FilterTheo(user_averages)
    /\ pc' = "prepare"
    /\ UNCHANGED <<aggregated, kmVars, err, max_k, costs, runs, best_k, picks,
                   CLUSTER, cluster_means, cluster_cb_map>>

(* lines 63-66; the permutation the seeded generator yields for len(X) rows  *)
(* is fixed from here on                                                      *)
PrepareFeatures ==
    /\ pc = "prepare"
    /\ X' = Features(user_averages)
    /\ perm' \in IndexPermutations(Len(user_averages))
    /\ pc' = "find_k"
    /\ UNCHANGED <<aggregated, user_averages, n_clusters, max_iter, labels, medoids,
                   total_cost, iter, kpc, ret, draws, err, max_k, costs, runs,
                   best_k, picks, CLUSTER, cluster_means, cluster_cb_map>>

(* lines 102-104: one pass of the loop over k_range *)
TrialRun ==
    /\ pc = "find_k"
    /\ Len(costs) < Len(KRange(max_k))
    /\ LET k == KRange(max_k)[Len(costs) + 1]
           r == KMediansRun(X, k, DefaultMaxIter, perm)
       IN  /\ costs' = Append(costs, r.cost)
           /\ runs' = runs + 1
    /\ UNCHANGED <<aggregated, user_averages, kmVars, err, max_k, best_k, picks, pc,
                   CLUSTER, cluster_means, cluster_cb_map>>

(* lines 106-121 and 128: k_range[0] raises IndexError on an empty k_range *)
SelectElbow ==
    /\ pc = "find_k"
    /\ Len(costs) = Len(KRange(max_k))
    /\ IF KRange(max_k) = <<>>
       THEN /\ err' = "IndexError"
            /\ pc' = "raised"
            /\ UNCHANGED best_k
       ELSE /\ best_k' = ElbowSelect(KRange(max_k), costs)
            /\ pc' = "final"
            /\ UNCHANGED err
    /\ UNCHANGED <<aggregated, user_averages, kmVars, max_k, costs, runs, picks,
                   CLUSTER, cluster_means, cluster_cb_map>>

(* lines 132-133 *)
FinalClustering ==
    /\ pc = "final"
    /\ LET r == KMediansRun(X, best_k, DefaultMaxIter, perm)
       IN  /\ n_clusters' = best_k
           /\ max_iter' = DefaultMaxIter
           /\ labels' = r.labels
           /\ medoids' = r.medoids
           /\ ret' = r
           /\ CLUSTER' = r.labels
    /\ pc' = "rank"
    /\ UNCHANGED <<aggregated, user_averages, X, perm, total_cost, iter, kpc, draws,
                   err, max_k, costs, runs, best_k, picks, cluster_means,
                   cluster_cb_map>>

(* lines 136-140 *)
SortClusters ==
    /\ pc = "rank"
    /\ LET keys == GroupKeys(CLUSTER)
           means == [g \in 1..Len(keys) |-> GroupMean(user_averages, CLUSTER, keys[g])]
       IN  \E o \in SortOrders(means) :
              CLUSTER' = [i \in 1..Len(CLUSTER) |-> ClusterMapping(keys, o)[CLUSTER[i]]]
    /\ pc' = "reward"
    /\ UNCHANGED <<aggregated, user_averages, kmVars, err, max_k, costs, runs, best_k,
                   picks, cluster_means, cluster_cb_map>>

(* lines 144-150 *)
CalculateCB ==
    /\ pc = "reward"
    /\ cluster_means' = [c \in Range(CLUSTER) |-> GroupMean(user_averages, CLUSTER, c)]
    /\ cluster_cb_map' = [c \in Range(CLUSTER) |->
                             calculate_cb_amount(GroupMean(user_averages, CLUSTER, c))]
    /\ pc' = "done"
    /\ UNCHANGED <<aggregated, user_averages, kmVars, err, max_k, costs, runs, best_k,
                   picks, CLUSTER>>

Next ==
    \/ FilterUsers
    \/ PrepareFeatures
    \/ TrialRun
    \/ SelectElbow
    \/ FinalClustering
    \/ SortClusters
    \/ CalculateCB

Spec == Init /\ [][Next]_vars

----------------------------------------------------------------------------
(* Properties of a direct kmedians call *)

InLoopOrReturned == pc = "kmedians" /\ kpc \in {"loop", "done"} /\ iter >= 1
Returned == pc = "kmedians" /\ kpc = "done"
UsedLabels(lab) == Range(lab)
HasDuplicates(XX) == Cardinality(Range(XX)) < Len(XX)
HasEmptyCluster(lab, n) == \E j \in 0..(n - 1) : j \notin Range(lab)

(* C1 (as stated): with N >= k, after any number of loop passes there is one  *)
(* label per vector, every label lies in [0, k) and the number of DISTINCT    *)
(* medoids equals k, duplicates and empty clusters included.                  *)
C1_DistinctMedoids ==
    (InLoopOrReturned /\ Len(X) >= n_clusters) =>
        /\ Len(labels) = Len(X)
        /\ \A i \in 1..Len(labels) : labels[i] \in 0..(n_clusters - 1)
        /\ Cardinality(Range(medoids)) = n_clusters

(* C1 (amended): with N >= k, after any number of loop passes there is one    *)
(* label per vector, every label lies in [0, k) and kmedians holds exactly k  *)
(* medoid rows, which need not be distinct.                                   *)
C1_LabelsInRangeKMedoidRows ==
    (InLoopOrReturned /\ Len(X) >= n_clusters) =>
        /\ Len(labels) = Len(X)
        /\ \A i \in 1..Len(labels) : labels[i] \in 0..(n_clusters - 1)
        /\ Len(medoids) = n_clusters
        /\ Cardinality(Range(medoids)) <= n_clusters

(* C1 witness: a call on duplicate vectors has returned with an empty        *)
(* cluster and fewer than k distinct medoids.                                 *)
C1_Witness ==
    /\ Returned /\ Len(X) >= n_clusters /\ iter >= 1
    /\ HasDuplicates(X)
    /\ HasEmptyCluster(labels, n_clusters)
    /\ Cardinality(Range(medoids)) < n_clusters

(* C1 witness: a call is still in the loop after its first pass. *)
C1_WitnessInLoop ==
    /\ pc = "kmedians" /\ kpc = "loop" /\ iter = 1
    /\ Len(X) >= n_clusters /\ n_clusters >= 2

(* C6: a call with N < k returns without error, without a draw and without   *)
(* building or indexing any medoid: N zero labels, no medoid, cost 0.         *)
C6_DegenerateReturn ==
    (pc = "kmedians" /\ Len(X) < n_clusters) =>
        /\ kpc \in {"call", "done"}
        /\ err = "none"
        /\ draws = 0
        /\ medoids = <<>>
        /\ kpc = "done" =>
            /\ Len(ret.labels) = Len(X)
            /\ \A i \in 1..Len(X) : ret.labels[i] = 0
            /\ ret.medoids = <<>>
            /\ ret.cost = 0

(* C6 witness: a call with 0 < N < k has returned. *)
C6_Witness == Returned /\ Len(X) > 0 /\ Len(X) < n_clusters

(* C6 witness, N = 0 *)
C6_WitnessEmpty == Returned /\ Len(X) = 0 /\ ret.labels = <<>>

(* C7 (as stated): in the assignment returned by a call with N >= k every    *)
(* user has one cluster index and the indices in use are exactly [0, k).      *)
C7_AllIndicesUsed ==
    (Returned /\ Len(X) >= n_clusters) =>
        /\ Len(ret.labels) = Len(X)
        /\ UsedLabels(ret.labels) = 0..(n_clusters - 1)

(* C7 (amended): in the assignment returned by a call with N >= k every user *)
(* has one cluster index, and the indices in use are a non-empty subset of    *)
(* [0, k), not necessarily all of it.                                         *)
C7_IndicesWithinRange ==
    (Returned /\ Len(X) >= n_clusters) =>
        /\ DOMAIN ret.labels = 1..Len(X)
        /\ UsedLabels(ret.labels) \subseteq 0..(n_clusters - 1)
        /\ UsedLabels(ret.labels) # {}

(* C7 witness: a returned assignment of more than k users in which some     *)
(* index of [0, k) has no member.                                             *)
C7_Witness ==
    /\ Returned /\ Len(X) > n_clusters
    /\ HasEmptyCluster(ret.labels, n_clusters)

(* C10 (as stated): the triple returned by a call with N >= k is consistent: *)
(* every label is the lowest-index nearest returned medoid and the cost is    *)
(* the sum of the distances of the points to the returned medoid of their     *)
(* label.                                                                     *)
C10_ReturnConsistent ==
    (Returned /\ Len(X) >= n_clusters) =>
        /\ ret.labels = Assign(X, ret.medoids)
        /\ ret.cost = Sum([i \in 1..Len(X) |->
                              L1(X[i], ret.medoids[ret.labels[i] + 1])])

----------------------------------------------------------------------------
(* Properties of the script *)

AfterFindK == pc \in {"final", "rank", "reward", "done"}
AfterRanking == pc \in {"reward", "done"}

(* C2 (as stated): called with max_k <= 0 or with an empty feature set,      *)
(* find_optimal_k makes no kmedians run and returns no k: it ends in an       *)
(* error reported to the caller.                                              *)
C2_ConfigErrorBeforeAnyRun ==
    (pc \notin {"filter", "prepare"} /\ (max_k <= 0 \/ X = <<>>)) =>
        /\ runs = 0
        /\ pc \in {"find_k", "raised"}
        /\ pc = "raised" => err # "none"

(* The point-to-line distance of (k, cs[k]) from the line through (1, cs[1]) *)
(* and (K, cs[K]), K = Len(cs), times the length of that segment              *)
PerpTimesLength(k, cs) ==
    LET K == Len(cs)
    IN  Abs((K - 1) * (cs[1] - cs[k]) - (1 - k) * (cs[K] - cs[1]))

IsFirstFarthest(k, cs) ==
    /\ k \in 1..Len(cs)
    /\ \A j \in 1..Len(cs) : PerpTimesLength(j, cs) <= PerpTimesLength(k, cs)
    /\ \A j \in 1..(k - 1) : PerpTimesLength(j, cs) < PerpTimesLength(k, cs)

(* C3: for a non-empty feature set and max_k >= 1, find_optimal_k returns a  *)
(* k* in [1, max_k] that is the smallest k of maximum perpendicular distance  *)
(* from the line through the end points of the cost curve, the curve being    *)
(* the costs of fresh kmedians runs (0 for k > N).                            *)
C3_SmallestFarthestK ==
    (AfterFindK /\ X # <<>> /\ max_k >= 1) =>
        /\ err = "none"
        /\ best_k \in 1..max_k
        /\ Len(costs) = max_k
        /\ \A k \in 1..max_k :
              /\ costs[k] = KMediansRun(X, k, DefaultMaxIter, perm).cost
              /\ k > Len(X) => costs[k] = 0
        /\ IsFirstFarthest(best_k, costs)

(* C3 witness: an interior k was selected on a curve that includes runs with *)
(* k > N.                                                                     *)
C3_Witness ==
    /\ pc = "final" /\ X # <<>> /\ max_k > Len(X)
    /\ 1 < best_k /\ best_k < max_k

(* C3 witness: several k share the maximum distance and the first was kept. *)
C3_WitnessTie ==
    /\ pc = "final" /\ X # <<>> /\ max_k >= 2
    /\ \E j \in (best_k + 1)..max_k :
          PerpTimesLength(j, costs) = PerpTimesLength(best_k, costs)

PreRankKeys == Range(labels)
PreRankMean(c) == GroupMean(user_averages, labels, c)
Precedes(c, d) ==
    \/ RatLT(PreRankMean(c), PreRankMean(d))
    \/ RatEQ(PreRankMean(c), PreRankMean(d)) /\ c < d
MembershipKept ==
    /\ Len(CLUSTER) = Len(labels)
    /\ \A i, j \in 1..Len(CLUSTER) : (CLUSTER[i] = CLUSTER[j]) <=> (labels[i] = labels[j])

(* C4 (as stated): after the ranking the final labels are exactly 1..k for   *)
(* the k of the final run, the final label of a cluster is 1 plus the number  *)
(* of clusters before it in ascending (mean, original index) order, and       *)
(* membership is unchanged.                                                   *)
C4_RankedByMeanThenIndex ==
    AfterRanking =>
        /\ Range(CLUSTER) = 1..n_clusters
        /\ \A i \in 1..Len(CLUSTER) :
              CLUSTER[i] = 1 + Cardinality({c \in PreRankKeys : Precedes(c, labels[i])})
        /\ MembershipKept

(* C4 (amended): after the ranking the final labels are exactly 1..m, m the  *)
(* number of non-empty clusters of the final run (m <= k); a cluster with a   *)
(* smaller final label has a mean no larger; clusters of equal mean come in   *)
(* either order; membership is unchanged.                                     *)
C4_RankedByMean ==
    AfterRanking =>
        /\ Range(CLUSTER) = 1..Cardinality(PreRankKeys)
        /\ Cardinality(PreRankKeys) <= n_clusters
        /\ \A i, j \in 1..Len(CLUSTER) :
              CLUSTER[i] < CLUSTER[j] => RatLE(PreRankMean(labels[i]), PreRankMean(labels[j]))
        /\ MembershipKept

(* C4 witness: a ranking of two clusters of different means in which the     *)
(* cluster of larger pre-rank index got label 1.                              *)
C4_Witness ==
    /\ pc = "reward"
    /\ \E i, j \in 1..Len(CLUSTER) :
          /\ labels[i] < labels[j]
          /\ RatLT(PreRankMean(labels[j]), PreRankMean(labels[i]))
          /\ CLUSTER[j] = 1

(* C4 witness: two clusters of equal mean ranked against their index order. *)
C4_WitnessTie ==
    /\ pc = "reward"
    /\ \E i, j \in 1..Len(CLUSTER) :
          /\ labels[i] < labels[j]
          /\ RatEQ(PreRankMean(labels[i]), PreRankMean(labels[j]))
          /\ CLUSTER[j] < CLUSTER[i]

(* C4 witness: fewer final labels than the k of the final run. *)
C4_WitnessEmptyCluster ==
    /\ pc = "reward"
    /\ CLUSTER # <<>>
    /\ Cardinality(Range(CLUSTER)) < n_clusters

ScenarioRun == pc = "done" /\ aggregated = ScenarioUsers /\ max_k = 3
Group(theo) == IF theo < 10 THEN "low" ELSE IF theo < 100 THEN "mid" ELSE "high"
MeansIncreasing ==
    \A c, d \in DOMAIN cluster_means : c < d => RatLT(cluster_means[c], cluster_means[d])
RewardsNonDecreasing ==
    \A c, d \in DOMAIN cluster_cb_map : c < d => cluster_cb_map[c] <= cluster_cb_map[d]

(* C8 (as stated): the scenario run (means 5, 50, 55, 500, 510, days 3,      *)
(* max_k = 3) ends with three clusters that separate the low, mid and high    *)
(* groups, cluster means strictly increasing and rewards non-decreasing.      *)
C8_ThreeClusters ==
    ScenarioRun =>
        /\ Range(CLUSTER) = {1, 2, 3}
        /\ \A i, j \in 1..Len(CLUSTER) :
              (CLUSTER[i] = CLUSTER[j]) <=>
                  (Group(user_averages[i].theo) = Group(user_averages[j].theo))
        /\ MeansIncreasing
        /\ RewardsNonDecreasing

(* C8 (amended): in the scenario run the user of mean 5 is removed by the    *)
(* filter, the elbow over k = 1..3 is k = 2, and the run ends with two        *)
(* clusters, {50, 55} as cluster 1 and {500, 510} as cluster 2, cluster means *)
(* strictly increasing (52.5 < 505) and rewards non-decreasing (10, 60).      *)
C8_TwoClusters ==
    ScenarioRun =>
        /\ Len(user_averages) = 4
        /\ \A i \in 1..Len(user_averages) : user_averages[i].theo >= TheoFilter
        /\ best_k = 2
        /\ CLUSTER = <<1, 1, 2, 2>>
        /\ DOMAIN cluster_means = {1, 2}
        /\ RatEQ(cluster_means[1], <<105, 2>>) /\ RatEQ(cluster_means[2], <<505, 1>>)
        /\ MeansIncreasing
        /\ cluster_cb_map[1] = 10 /\ cluster_cb_map[2] = 60
        /\ RewardsNonDecreasing

(* C8 witness: the scenario run has ended. *)
C8_Witness == ScenarioRun /\ Cardinality(Range(CLUSTER)) = 2 /\ Len(costs) = 3

----------------------------------------------------------------------------
(* The elbow computation of find_optimal_k on a given cost curve *)

(* costs [100, 40, 25, 22, 21, 20.5] for k = 1..6, in halves *)
ExampleCurve == <<200, 80, 50, 44, 42, 41>>

CostCurves == UNION {[1..m -> 0..MaxCost] : m \in 1..MaxCurveLen} \cup {ExampleCurve}

InitElbow ==
    /\ pc = "elbow"
    /\ costs \in CostCurves
    /\ max_k = Len(costs)
    /\ aggregated = <<>>
    /\ user_averages = <<>>
    /\ X = <<>>
    /\ perm = <<>>
    /\ NoCall
    /\ err = "none"
    /\ runs = 0
    /\ best_k = 0
    /\ picks = <<>>
    /\ CLUSTER = <<>>
    /\ cluster_means = <<>>
    /\ cluster_cb_map = <<>>

(* lines 106-121 on the curve held in costs; run twice on the same curve *)
SelectOnCurve ==
    /\ pc = "elbow"
    /\ Len(picks) < 2
    /\ best_k' = ElbowSelect(KRange(max_k), costs)
    /\ picks' = Append(picks, best_k')
    /\ UNCHANGED <<aggregated, user_averages, kmVars, err, max_k, costs, runs, pc,
                   CLUSTER, cluster_means, cluster_cb_map>>

NextElbow == SelectOnCurve

SpecElbow == InitElbow /\ [][NextElbow]_vars

StrictlyDecreasing(cs) == \A i \in 1..(Len(cs) - 1) : cs[i + 1] < cs[i]
StrictlyConvex(cs) ==
    \A i \in 1..(Len(cs) - 2) : cs[i + 2] - cs[i + 1] > cs[i + 1] - cs[i]

(* C9: on a strictly convex, strictly decreasing cost curve over k = 1..max_k *)
(* with max_k >= 3 the elbow computation selects a k with 1 < k < max_k, and  *)
(* a second selection on the same curve selects the same k.                   *)
C9_InteriorAndStable ==
    (pc = "elbow" /\ Len(costs) >= 3 /\ StrictlyDecreasing(costs) /\ StrictlyConvex(costs)) =>
        \A i \in 1..Len(picks) :
            /\ 1 < picks[i]
            /\ picks[i] < max_k
            /\ picks[i] = picks[1]

(* C9 witness: the example curve, selected on twice. *)
C9_Witness ==
    /\ pc = "elbow" /\ costs = ExampleCurve /\ Len(picks) = 2
    /\ StrictlyDecreasing(costs) /\ StrictlyConvex(costs)
    /\ picks = <<2, 2>>

----------------------------------------------------------------------------
(* calculate_cb_amount on given cluster means *)

FreeMeans == {<<sm, cnt>> : sm \in 0..MaxSum, cnt \in 1..MaxCount}

InitReward ==
    /\ pc = "reward_rule"
    /\ cluster_means \in [1..2 -> FreeMeans]
    /\ cluster_cb_map = <<>>
    /\ aggregated = <<>>
    /\ user_averages = <<>>
    /\ X = <<>>
    /\ perm = <<>>
    /\ NoCall
    /\ err = "none"
    /\ max_k = 0
    /\ costs = <<>>
    /\ runs = 0
    /\ best_k = 0
    /\ picks = <<>>
    /\ CLUSTER = <<>>

(* line 150: cluster_means.apply(calculate_cb_amount) *)
ApplyReward ==
    /\ pc = "reward_rule"
    /\ cluster_cb_map' = [c \in DOMAIN cluster_means |->
                             calculate_cb_amount(cluster_means[c])]
    /\ pc' = "reward_done"
    /\ UNCHANGED <<aggregated, user_averages, kmVars, err, max_k, costs, runs, best_k,
                   picks, CLUSTER, cluster_means>>

NextReward == ApplyReward

SpecReward == InitReward /\ [][NextReward]_vars

(* r is 10 * ceil(m / 100): the least multiple of 10 whose tenfold is >= m *)
IsTenTimesCeilOfHundredth(r, m) ==
    /\ r >= 0
    /\ r % 10 = 0
    /\ RatLE(m, <<10 * r, 1>>)
    /\ RatLT(<<10 * (r - 10), 1>>, m)

(* C5: for a cluster mean m >= 0 the reward is 10 * ceil(m / 100): a          *)
(* non-negative multiple of 10, 0 for m = 0, non-decreasing in m; 47 gives    *)
(* 10 and 123 gives 20.                                                       *)
C5_RewardFormula ==
    pc = "reward_done" =>
        /\ \A c \in DOMAIN cluster_means :
              /\ IsTenTimesCeilOfHundredth(cluster_cb_map[c], cluster_means[c])
              /\ cluster_means[c][1] = 0 => cluster_cb_map[c] = 0
              /\ RatEQ(cluster_means[c], <<47, 1>>) => cluster_cb_map[c] = 10
              /\ RatEQ(cluster_means[c], <<123, 1>>) => cluster_cb_map[c] = 20
        /\ \A c, d \in DOMAIN cluster_means :
              RatLE(cluster_means[c], cluster_means[d]) =>
                  cluster_cb_map[c] <= cluster_cb_map[d]

(* C5 witness: the rewards of the means 47 and 123 have been computed. *)
C5_Witness ==
    /\ pc = "reward_done"
    /\ cluster_means = <<<<47, 1>>, <<123, 1>>>>
    /\ cluster_cb_map = <<10, 20>>

====
